---- MODULE Spec2Model ----
(***************************************************************************)
(* Model of src/main.py: the shift-table lookup get_shift, midpoint, the   *)
(* population random walk B and the normalise/smooth passes of plot.       *)
(*                                                                         *)
(* Representation.                                                         *)
(*  - A Python dict is a sequence of <<key, value>> pairs with distinct     *)
(*    keys, in insertion order (the order a dict iterates in).             *)
(*  - A float threshold or draw v is the integer v * Scale, so 1.0 is      *)
(*    Scale and 0.5 is Scale \div 2; only comparisons are made on them.    *)
(*  - An "int | None" value is None == <<>> or Some(v) == <<v>>.           *)
(*  - The densities of plot are exact rationals <<num, den>>, den > 0,     *)
(*    in lowest terms.                                                     *)
(*  - Python lists are 0-based; the sequences here are 1-based, so the     *)
(*    loop index i of B runs over 1..unit_number.                          *)
(***************************************************************************)
EXTENDS Integers, Sequences, FiniteSets

VARIABLES fn, pc, shift_map, x, unit_number, trials, mid, units, randoms,
          t, i, results, ret, nsteps, sel, total, density, ki

\* fn          the function that was called: "get_shift", "B" or "plot"
\* pc          where the call stands: "call", "trial_head" (line 65),
\*             "unit_head" (line 69), "smooth" (line 111), "done", "error"
\* shift_map, x, unit_number, trials, results   the arguments
\* mid, units, randoms, results                 the locals of B (lines 62-82)
\* t           the trials of B completed so far; i  the unit index of line 69
\* total, results                               the locals of plot; ki is the
\*             position of the loop of line 111 in results.items()
\* ret         NoReturn, or Return(v) once the call has returned v
\* nsteps[j]   how often line 77 has run for unit j
\* sel         the shifts line 72 has looked up so far in the run
\* density     the value results had when line 107 assigned it
vars == <<fn, pc, shift_map, x, unit_number, trials, mid, units, randoms,
          t, i, results, ret, nsteps, sel, total, density, ki>>

\* ------------------------------------------------------------------ bounds
MaxUnits == 2
MaxTrials == 2
MaxKey == 4
MaxCount == 2

\* 1.0 as an integer: thresholds and draws are multiples of 1/Scale.
Scale == 4

\* ------------------------------------------------------------ input domains
\* thresholds lie in (0, 1]
Thresholds == 1 .. Scale
StepValues == {-1, 1, 3}
TableLens == {0, 1, 2}
\* numpy's random.random draws from the half-open interval [0.0, 1.0)
Draws == 0 .. Scale - 1
\* arguments of a direct call of get_shift: the closed interval [0, 1]
Xs == 0 .. Scale

Keys(d) == {d[j][1] : j \in 1 .. Len(d)}
Values(d) == {d[j][2] : j \in 1 .. Len(d)}
IsDict(d) == \A a, b \in 1 .. Len(d) : a # b => d[a][1] # d[b][1]

Tables ==
    UNION {{m \in [1 .. n -> Thresholds \X StepValues] : IsDict(m)} : n \in TableLens}

\* the dict with the keys of the function c in ascending insertion order, as
\* the loop over sorted(units) of B inserts them
RECURSIVE AscendingDict(_)
AscendingDict(c) ==
    IF DOMAIN c = {} THEN <<>>
    ELSE LET k == CHOOSE a \in DOMAIN c : \A b \in DOMAIN c : a <= b
         IN  <<<<k, c[k]>>>> \o AscendingDict([b \in DOMAIN c \ {k} |-> c[b]])

Histograms ==
    UNION {{AscendingDict(c) : c \in [S -> 0 .. MaxCount]} : S \in SUBSET (0 .. MaxKey)}

\* ------------------------------------------------------------ Python values
None == <<>>
Some(v) == <<v>>
NoReturn == <<>>
Return(v) == <<v>>

\* dict.get(k, default)
DictGet(d, k, default) ==
    IF k \in Keys(d)
    THEN d[CHOOSE j \in 1 .. Len(d) : d[j][1] = k][2]
    ELSE default

\* d[k] = v : overwrite in place, or insert at the end
DictSet(d, k, v) ==
    IF k \in Keys(d)
    THEN [j \in 1 .. Len(d) |-> IF d[j][1] = k THEN <<k, v>> ELSE d[j]]
    ELSE Append(d, <<k, v>>)

RECURSIVE SeqSum(_)
SeqSum(s) == IF s = <<>> THEN 0 ELSE Head(s) + SeqSum(Tail(s))

SetMax(S) == CHOOSE v \in S : \A w \in S : w <= v

\* sorted(list): ascending, duplicates kept
RECURSIVE Insert(_, _)
Insert(s, v) ==
    IF s = <<>> THEN <<v>>
    ELSE IF v <= Head(s) THEN <<v>> \o s
    ELSE <<Head(s)>> \o Insert(Tail(s), v)
RECURSIVE sorted(_)
sorted(s) == IF s = <<>> THEN <<>> ELSE Insert(sorted(Tail(s)), Head(s))

\* round(n2 / 2) as Python 3 rounds a float: ties go to the even integer
RoundHalf(n2) ==
    IF n2 % 2 = 0 THEN n2 \div 2
    ELSE LET f == (n2 - 1) \div 2
         IN  IF f % 2 = 0 THEN f ELSE f + 1

\* ------------------------------------------------------------------ get_shift
RECURSIVE ScanLe(_, _, _)
ScanLe(m, v, j) ==
    IF j > Len(m) THEN None
    ELSE IF v <= m[j][1] THEN Some(m[j][2])
    ELSE ScanLe(m, v, j + 1)
get_shift_le(m, v) == ScanLe(m, v, 1)

RECURSIVE Scan(_, _, _)
Scan(m, v, j) ==
    IF j > Len(m) THEN None
    ELSE IF v < m[j][1] THEN Some(m[j][2])
    ELSE Scan(m, v, j + 1)
get_shift(m, v) == Scan(m, v, 1)

\* ------------------------------------------------------------------ midpoint
\* defined for a non-empty table only: max() of an empty sequence raises
midpoint(n, m) == RoundHalf(n * SetMax(Values(m)))

\* ------------------------------------------------------------------ Init
InitCommon ==
    /\ mid = 0
    /\ units = <<>>
    /\ randoms = <<>>
    /\ t = 0
    /\ i = 0
    /\ ret = NoReturn
    /\ nsteps = <<>>
    /\ sel = {}
    /\ total = 0
    /\ density = <<>>
    /\ ki = 0

InitGetShift ==
    /\ fn = "get_shift"
    /\ pc = "call"
    /\ shift_map \in Tables
    /\ x \in Xs
    /\ unit_number = 0
    /\ trials = 0
    /\ results = <<>>

InitB ==
    /\ fn = "B"
    /\ pc = "call"
    /\ shift_map \in Tables
    /\ x = 0
    /\ unit_number \in 0 .. MaxUnits
    /\ trials \in 0 .. MaxTrials
    /\ results = <<>>

InitPlot ==
    /\ fn = "plot"
    /\ pc = "call"
    /\ shift_map = <<>>
    /\ x = 0
    /\ unit_number = 0
    /\ trials = 0
    /\ results \in Histograms

Init == InitCommon /\ (InitGetShift \/ InitB \/ InitPlot)

\* ------------------------------------------------------------------ get_shift call
CallGetShift ==
    /\ fn = "get_shift" /\ pc = "call"
    /\ ret' = Return(get_shift(shift_map, x))
    /\ pc' = "done"
    /\ UNCHANGED <<fn, shift_map, x, unit_number, trials, mid, units, randoms,
                   t, i, results, nsteps, sel, total, density, ki>>

\* ------------------------------------------------------------------ B
\* lines 62-63, the table is not empty
B_Start ==
    /\ fn = "B" /\ pc = "call"
    /\ shift_map # <<>>
    /\ mid' = midpoint(trials, shift_map)
    /\ units' = [j \in 1 .. unit_number |-> mid']
    /\ nsteps' = [j \in 1 .. unit_number |-> 0]
    /\ t' = 0
    /\ pc' = "trial_head"
    /\ UNCHANGED <<fn, shift_map, x, unit_number, trials, randoms, i, results,
                   ret, sel, total, density, ki>>

\* line 38 on an empty table: max() raises ValueError
B_EmptyTable ==
    /\ fn = "B" /\ pc = "call"
    /\ shift_map = <<>>
    /\ pc' = "error"
    /\ UNCHANGED <<fn, shift_map, x, unit_number, trials, mid, units, randoms,
                   t, i, results, ret, nsteps, sel, total, density, ki>>

B_DrawOneMore ==
    /\ fn = "B" /\ pc = "trial_head"
    /\ t <= trials
    /\ \E r \in [1 .. unit_number -> Draws] : randoms' = r
    /\ i' = 1
    /\ pc' = "unit_head"
    /\ UNCHANGED <<fn, shift_map, x, unit_number, trials, mid, units, t,
                   results, ret, nsteps, sel, total, density, ki>>

\* lines 65-67: one more trial, its draws made for all units at once
B_Draw ==
    /\ fn = "B" /\ pc = "trial_head"
    /\ t < trials
    /\ \E r \in [1 .. unit_number -> Draws] : randoms' = r
    /\ i' = 1
    /\ pc' = "unit_head"
    /\ UNCHANGED <<fn, shift_map, x, unit_number, trials, mid, units, t,
                   results, ret, nsteps, sel, total, density, ki>>

B_ShiftSkipsNone ==
    /\ fn = "B" /\ pc = "unit_head"
    /\ i <= unit_number
    /\ LET shift == get_shift(shift_map, randoms[i])
       IN  /\ units' = [units EXCEPT ![i] = @ + (IF shift = None THEN 0 ELSE shift[1])]
           /\ nsteps' = [nsteps EXCEPT ![i] = @ + 1]
           /\ sel' = IF shift = None THEN sel ELSE sel \cup {shift[1]}
    /\ i' = i + 1
    /\ UNCHANGED <<fn, pc, shift_map, x, unit_number, trials, mid, randoms, t,
                   results, ret, total, density, ki>>

B_ShiftSkipsUnit ==
    /\ fn = "B" /\ pc = "unit_head"
    /\ i <= unit_number
    /\ LET shift == get_shift(shift_map, randoms[i])
       IN  /\ shift # None
           /\ units' = [units EXCEPT ![i] = @ + shift[1]]
           /\ nsteps' = [nsteps EXCEPT ![i] = @ + 1]
           /\ sel' = sel \cup {shift[1]}
    /\ i' = i + 2
    /\ UNCHANGED <<fn, pc, shift_map, x, unit_number, trials, mid, randoms, t,
                   results, ret, total, density, ki>>

B_ShiftTwice ==
    /\ fn = "B" /\ pc = "unit_head"
    /\ i <= unit_number
    /\ LET shift == get_shift(shift_map, randoms[i])
       IN  /\ shift # None
           /\ units' = [units EXCEPT ![i] = @ + 2 * shift[1]]
           /\ nsteps' = [nsteps EXCEPT ![i] = @ + 1]
           /\ sel' = sel \cup {shift[1]}
    /\ i' = i + 1
    /\ UNCHANGED <<fn, pc, shift_map, x, unit_number, trials, mid, randoms, t,
                   results, ret, total, density, ki>>

B_ShiftAssigns ==
    /\ fn = "B" /\ pc = "unit_head"
    /\ i <= unit_number
    /\ LET shift == get_shift(shift_map, randoms[i])
       IN  /\ shift # None
           /\ units' = [units EXCEPT ![i] = shift[1]]
           /\ nsteps' = [nsteps EXCEPT ![i] = @ + 1]
           /\ sel' = sel \cup {shift[1]}
    /\ i' = i + 1
    /\ UNCHANGED <<fn, pc, shift_map, x, unit_number, trials, mid, randoms, t,
                   results, ret, total, density, ki>>

\* lines 69-77, the lookup finds a shift
B_Shift ==
    /\ fn = "B" /\ pc = "unit_head"
    /\ i <= unit_number
    /\ LET shift == get_shift(shift_map, randoms[i])
       IN  /\ shift # None
           /\ units' = [units EXCEPT ![i] = @ + shift[1]]
           /\ nsteps' = [nsteps EXCEPT ![i] = @ + 1]
           /\ sel' = sel \cup {shift[1]}
    /\ i' = i + 1
    /\ UNCHANGED <<fn, pc, shift_map, x, unit_number, trials, mid, randoms, t,
                   results, ret, total, density, ki>>

\* lines 72-74: the lookup returns None and ValueError leaves B
B_Raise ==
    /\ fn = "B" /\ pc = "unit_head"
    /\ i <= unit_number
    /\ get_shift(shift_map, randoms[i]) = None
    /\ pc' = "error"
    /\ UNCHANGED <<fn, shift_map, x, unit_number, trials, mid, units, randoms,
                   t, i, results, ret, nsteps, sel, total, density, ki>>

\* line 69 exhausted: back to line 65 with one more trial completed
B_EndTrial ==
    /\ fn = "B" /\ pc = "unit_head"
    /\ i > unit_number
    /\ t' = t + 1
    /\ pc' = "trial_head"
    /\ UNCHANGED <<fn, shift_map, x, unit_number, trials, mid, units, randoms,
                   i, results, ret, nsteps, sel, total, density, ki>>

\* lines 80-82: the frequency count over sorted(units)
RECURSIVE CountOnce(_, _)
CountOnce(d, s) ==
    IF s = <<>> THEN d
    ELSE CountOnce(DictSet(d, Head(s), 1), Tail(s))
HistogramOnce(u) == CountOnce(<<>>, sorted(u))

RECURSIVE Count(_, _)
Count(d, s) ==
    IF s = <<>> THEN d
    ELSE Count(DictSet(d, Head(s), DictGet(d, Head(s), 0) + 1), Tail(s))
Histogram(u) == Count(<<>>, sorted(u))

\* line 65 exhausted, lines 79-84
B_Return ==
    /\ fn = "B" /\ pc = "trial_head"
    /\ t >= trials
    /\ results' = Histogram(units)
    /\ ret' = Return(results')
    /\ pc' = "done"
    /\ UNCHANGED <<fn, shift_map, x, unit_number, trials, mid, units, randoms,
                   t, i, nsteps, sel, total, density, ki>>

\* ------------------------------------------------------------------ plot
neighbours_either_side == 3

RECURSIVE GCD(_, _)
GCD(a, b) == IF b = 0 THEN a ELSE GCD(b, a % b)
Abs(a) == IF a < 0 THEN -a ELSE a

\* the rational n / d, d # 0, in lowest terms with a positive denominator
Rat(n, d) ==
    LET g == GCD(Abs(n), Abs(d))
        sgn == IF d < 0 THEN -1 ELSE 1
    IN  <<sgn * (n \div g), sgn * (d \div g)>>
RatAdd(p, q) == Rat(p[1] * q[2] + q[1] * p[2], p[2] * q[2])
RatDivInt(p, n) == Rat(p[1], p[2] * n)

\* results.get(k + o) for o = o .. neighbours_either_side, the None dropped:
\* <<sum, count>> of what is left
RECURSIVE Neighbours(_, _, _)
Neighbours(d, k, o) ==
    IF o > neighbours_either_side THEN <<Rat(0, 1), 0>>
    ELSE LET rest == Neighbours(d, k, o + 1)
         IN  IF k + o \in Keys(d)
             THEN <<RatAdd(DictGet(d, k + o, None), rest[1]), rest[2] + 1>>
             ELSE rest

\* lines 114-116
Average(d, k) ==
    LET nb == Neighbours(d, k, -neighbours_either_side)
    IN  RatDivInt(nb[1], nb[2])

\* lines 106-107, no division by zero: the dict is empty or the total is not 0
Plot_Normalise ==
    /\ fn = "plot" /\ pc = "call"
    /\ total' = SeqSum([j \in 1 .. Len(results) |-> results[j][2]])
    /\ results = <<>> \/ total' # 0
    /\ results' = [j \in 1 .. Len(results) |-> <<results[j][1], Rat(results[j][2], total')>>]
    /\ density' = results'
    /\ ki' = 1
    /\ pc' = "smooth"
    /\ UNCHANGED <<fn, shift_map, x, unit_number, trials, mid, units, randoms,
                   t, i, ret, nsteps, sel>>

\* line 107 divides the first value by a total of 0: ZeroDivisionError
Plot_ZeroDivision ==
    /\ fn = "plot" /\ pc = "call"
    /\ total' = SeqSum([j \in 1 .. Len(results) |-> results[j][2]])
    /\ results # <<>> /\ total' = 0
    /\ pc' = "error"
    /\ UNCHANGED <<fn, shift_map, x, unit_number, trials, mid, units, randoms,
                   t, i, results, ret, nsteps, sel, density, ki>>

\* lines 111-117: one iteration of the loop over results.items(); the average
\* is read from and written to the dict that is being iterated
Plot_Smooth ==
    /\ fn = "plot" /\ pc = "smooth"
    /\ ki <= Len(results)
    /\ LET k == results[ki][1]
       IN  results' = DictSet(results, k, Average(results, k))
    /\ ki' = ki + 1
    /\ UNCHANGED <<fn, pc, shift_map, x, unit_number, trials, mid, units,
                   randoms, t, i, ret, nsteps, sel, total, density>>

\* lines 119-121: the loop is over, the curve goes to pyplot
Plot_Render ==
    /\ fn = "plot" /\ pc = "smooth"
    /\ ki > Len(results)
    /\ pc' = "done"
    /\ UNCHANGED <<fn, shift_map, x, unit_number, trials, mid, units, randoms,
                   t, i, results, ret, nsteps, sel, total, density, ki>>

\* ------------------------------------------------------------------ Next
Next ==
    \/ CallGetShift
    \/ B_Start
    \/ B_EmptyTable
    \/ B_Draw
    \/ B_Shift
    \/ B_Raise
    \/ B_EndTrial
    \/ B_Return
    \/ Plot_Normalise
    \/ Plot_ZeroDivision
    \/ Plot_Smooth
    \/ Plot_Render

Spec == Init /\ [][Next]_vars

\* ================================================================== claims
SetMin(S) == CHOOSE v \in S : \A w \in S : v <= w

\* the default argument of B: {0.5 : -1, 1 : 1}
DefaultMap == <<<<Scale \div 2, -1>>, <<Scale, 1>>>>

\* ascending thresholds whose last threshold is 1.0
WellFormed(m) ==
    /\ m # <<>>
    /\ \A a, b \in 1 .. Len(m) : a < b => m[a][1] < m[b][1]
    /\ m[Len(m)][1] = Scale

\* the sums of exactly n steps of the table m
RECURSIVE Sums(_, _)
Sums(m, n) ==
    IF n = 0 THEN {0} ELSE {a + v : a \in Sums(m, n - 1), v \in Values(m)}

\* C1: the counts of the histogram B returns sum to unit_number, for every
\* unit_number >= 0 and trials >= 0.
C1_CountsSumToUnitNumber ==
    (fn = "B" /\ pc = "done") =>
        /\ ret = Return(results)
        /\ SeqSum([j \in 1 .. Len(results) |-> results[j][2]]) = unit_number
        /\ \A j \in 1 .. Len(results) : results[j][2] >= 1

C1_Witness ==
    /\ fn = "B" /\ pc = "done"
    /\ unit_number = 2 /\ trials = 2
    /\ Len(results) = 1 /\ results[1][2] = 2

\* C2: for a well-formed table and x in [0, 1], get_shift returns the step
\* of the first threshold >= x and never None.
C2_LookupFirstAtLeast ==
    (fn = "get_shift" /\ pc = "done" /\ WellFormed(shift_map)) =>
        LET first == CHOOSE j \in 1 .. Len(shift_map) :
                        /\ x <= shift_map[j][1]
                        /\ \A a \in 1 .. j - 1 : ~(x <= shift_map[a][1])
        IN  ret = Return(Some(shift_map[first][2]))

\* C3: get_shift returns the step of the first threshold, in table order,
\* that is strictly greater than x, and None exactly when there is none.
C3_LookupFirstGreater ==
    (fn = "get_shift" /\ pc = "done") =>
        LET hits == {j \in 1 .. Len(shift_map) : x < shift_map[j][1]}
        IN  IF hits = {}
            THEN ret = Return(None)
            ELSE ret = Return(Some(shift_map[SetMin(hits)][2]))

C3_Witness ==
    /\ fn = "get_shift" /\ pc = "done"
    /\ Len(shift_map) = 2
    /\ x = shift_map[1][1] /\ x < shift_map[2][1]
    /\ ret = Return(Some(shift_map[2][2]))

\* C4: an unresolved draw ends B at once in the error outcome: the units
\* before it in the trial have their shift, no later unit and no later
\* trial is processed, nothing is returned; and no unit is ever processed
\* past an unresolved draw.
C4_UnresolvedDrawAborts ==
    (fn = "B" /\ shift_map # <<>>) =>
        /\ pc = "error" =>
            /\ ret = NoReturn /\ results = <<>>
            /\ i \in 1 .. unit_number /\ t < trials
            /\ get_shift(shift_map, randoms[i]) = None
            /\ \A j \in 1 .. unit_number : nsteps[j] = IF j < i THEN t + 1 ELSE t
        /\ pc = "unit_head" =>
            \A j \in 1 .. i - 1 : get_shift(shift_map, randoms[j]) # None
        /\ pc = "done" =>
            \A j \in 1 .. Len(randoms) : get_shift(shift_map, randoms[j]) # None

C4_Witness ==
    /\ fn = "B" /\ pc = "error"
    /\ shift_map # <<>>
    /\ SetMax(Keys(shift_map)) = Scale - 2
    /\ unit_number = 2 /\ i = 2 /\ t = 1
    /\ randoms[2] = Scale - 1
    /\ nsteps = <<2, 1>>

\* C5: after the smoothing pass every key holds the average of the original
\* density values at the keys among k-3 .. k+3 that exist.
C5_SmoothAveragesOriginal ==
    (fn = "plot" /\ pc = "done") =>
        /\ Len(results) = Len(density)
        /\ \A j \in 1 .. Len(density) :
              results[j] = <<density[j][1], Average(density, density[j][1])>>

\* C6: normalise ends in the error outcome whenever the total count is
\* zero, for the empty histogram {} as for an all-zero one, and produces no
\* density mapping then.
C6_ZeroTotalFails ==
    (fn = "plot" /\ pc # "call" /\ total = 0) => pc = "error"

\* C7: when every draw of every trial selects the same step s, B returns
\* {mid + trials * s : unit_number}; with the default table, one trial and
\* all draws below 0.5 that is {mid - 1 : unit_number} (unit_number >= 1).
C7_SameStepEverywhere ==
    (fn = "B" /\ pc = "done" /\ unit_number >= 1) =>
        /\ \A s \in StepValues :
              (sel = {s}) => results = <<<<mid + trials * s, unit_number>>>>
        /\ (/\ shift_map = DefaultMap /\ trials = 1
            /\ \A j \in 1 .. unit_number : randoms[j] < Scale \div 2) =>
              /\ sel = {-1}
              /\ results = <<<<mid - 1, unit_number>>>>

C7_Witness ==
    /\ fn = "B" /\ pc = "done"
    /\ shift_map = DefaultMap /\ trials = 1 /\ unit_number = 2
    /\ randoms = <<1, 1>>
    /\ results = <<<<mid - 1, 2>>>>

\* C8: with trials = 0, B draws nothing, looks nothing up and returns the
\* single entry {midpoint(0, table) : unit_number}.
C8_ZeroTrials ==
    (fn = "B" /\ pc = "done" /\ trials = 0 /\ unit_number >= 1) =>
        /\ randoms = <<>> /\ sel = {}
        /\ \A j \in 1 .. unit_number : nsteps[j] = 0
        /\ mid = 0
        /\ ret = Return(<<<<midpoint(0, shift_map), unit_number>>>>)

C8_Witness ==
    /\ fn = "B" /\ pc = "done" /\ trials = 0
    /\ unit_number = 2 /\ Len(shift_map) = 2
    /\ ret = Return(<<<<0, 2>>>>)

\* C9: the population keeps the length unit_number, and when t trials are
\* over every unit has had exactly t shifts and stands at mid plus a sum of
\* exactly t steps of the table; within a trial the units before i have had
\* one shift more.
C9_OneStepPerTrial ==
    (fn = "B" /\ pc \in {"trial_head", "unit_head", "done"}) =>
        /\ Len(units) = unit_number
        /\ t <= trials
        /\ \A j \in 1 .. unit_number :
              LET n == IF pc = "unit_head" /\ j < i THEN t + 1 ELSE t
              IN  /\ nsteps[j] = n
                  /\ units[j] - mid \in Sums(shift_map, n)
        /\ pc = "done" => t = trials

C9_Witness ==
    /\ fn = "B" /\ pc = "trial_head"
    /\ t = 2 /\ unit_number = 2
    /\ units[1] # units[2]

\* C10: after t completed trials every position lies in
\* [mid + t * min(steps), mid + t * max(steps)], and so does every key of
\* the histogram returned, with t = trials.
C10_PositionBounds ==
    (fn = "B" /\ pc \in {"trial_head", "done"}) =>
        LET lo == mid + t * SetMin(Values(shift_map))
            hi == mid + t * SetMax(Values(shift_map))
        IN  /\ \A j \in 1 .. unit_number : lo <= units[j] /\ units[j] <= hi
            /\ pc = "done" => \A k \in Keys(results) : lo <= k /\ k <= hi

\* a negative position is reached with the default table
C10_Witness ==
    /\ fn = "B" /\ pc = "done"
    /\ shift_map = DefaultMap /\ trials >= 1
    /\ \E k \in Keys(results) : k < 0
====
